---- MODULE Spec2Model ----
(***************************************************************************)
(* Model of Shared/airtable_manager.py: the AirtableClient wrapper around   *)
(* the hosted record store.  The state is the process environment, the      *)
(* client object, the content of the view the client addresses in the       *)
(* external store, and the last call with its outcome.                       *)
(***************************************************************************)
EXTENDS FiniteSets, Integers, Sequences, TLC

VARIABLES env, client, view, flagged, pc, call, outcome

vars == <<env, client, view, flagged, pc, call, outcome>>

(***************************************************************************)
(* Bounds of the model.                                                     *)
(***************************************************************************)
MaxRecords == 2
MaxCount == 2
MaxDay == 2

(***************************************************************************)
(* Python values.  A value carries its type tag; a string is the sequence   *)
(* of its pieces of text (single characters where the code splits it).      *)
(***************************************************************************)
None == [t |-> "none"]
Str(s) == [t |-> "str", s |-> s]
Text(x) == Str(<<x>>)
List(l) == [t |-> "list", l |-> l]
Bool(b) == [t |-> "bool", b |-> b]
Num(n) == [t |-> "int", n |-> n]
Dict(d) == [t |-> "dict", d |-> d]

IsList(v) == v.t = "list"

\* Python truthiness, as used by `if not x`, `x and y`, all([...]).
Truthy(v) ==
    CASE v.t = "none" -> FALSE
      [] v.t = "str" -> Len(v.s) > 0
      [] v.t = "list" -> Len(v.l) > 0
      [] v.t = "bool" -> v.b
      [] v.t = "int" -> v.n # 0
      [] OTHER -> TRUE

\* dict.get(name): the value, or None when the key is missing.
Get(fields, name) == IF name \in DOMAIN fields THEN fields[name] ELSE None

\* An exception leaving a block, and a normal result.
Raise(what) == [kind |-> "raise", value |-> Text(what)]
Return(v) == [kind |-> "return", value |-> v]

(***************************************************************************)
(* Construction: AirtableClient.__init__.                                   *)
(***************************************************************************)
EnvNames ==
    {"AIRTABLE_API_KEY", "ALEXIS_BASE_ID", "ALEXIS_CONTENT_TABLE_ID",
     "MADDISON_BASE_ID", "MADDISON_CONTENT_TABLE_ID", "IG_ARMY_BASE_ID",
     "IG_ARMY_WARMUP_ACCOUNTS_TABLE_ID"}

\* os.getenv gives None for an unset variable, else its (possibly empty) text.
EnvValues(name) == {None, Str(<<>>), Text(name)}

Environments == {e \in [EnvNames -> UNION {EnvValues(n) : n \in EnvNames}] :
                    \A n \in EnvNames : e[n] \in EnvValues(n)}

\* A .env file that sets the API key and the variables named in `set`.
EnvWith(set) ==
    [n \in EnvNames |-> IF n = "AIRTABLE_API_KEY" \/ n \in set THEN Text(n) ELSE None]

ContentEnv == EnvWith({"ALEXIS_BASE_ID", "ALEXIS_CONTENT_TABLE_ID"})
WarmupEnv == EnvWith({"IG_ARMY_BASE_ID", "IG_ARMY_WARMUP_ACCOUNTS_TABLE_ID"})
PoolEnv == EnvWith({})

TableKeys == {"content_alexis", "content_maddison", "warmup_accounts"}

table_map(e) ==
    [k \in TableKeys |->
        CASE k = "content_alexis" ->
                [base_id |-> e["ALEXIS_BASE_ID"],
                 table_id |-> e["ALEXIS_CONTENT_TABLE_ID"],
                 view |-> Text("Unposted")]
          [] k = "content_maddison" ->
                [base_id |-> e["MADDISON_BASE_ID"],
                 table_id |-> e["MADDISON_CONTENT_TABLE_ID"],
                 view |-> Text("Unposted")]
          [] k = "warmup_accounts" ->
                [base_id |-> e["IG_ARMY_BASE_ID"],
                 table_id |-> e["IG_ARMY_WARMUP_ACCOUNTS_TABLE_ID"],
                 view |-> Text("Warmup")]]

\* The table_key arguments tried: omitted, empty, the three named ones, another.
TableKeyInputs ==
    {None, Str(<<>>), Text("content_alexis"), Text("content_maddison"),
     Text("warmup_accounts"), Text("content_other")}

NoClient == [constructed |-> FALSE]

NewClient(api_key, base_id, table_id, view_name) ==
    [constructed |-> TRUE, api_key |-> api_key, base_id |-> base_id,
     table_id |-> table_id, view_name |-> view_name]

AllConfiguredBaseOnly(config) == Truthy(config.base_id)

\* all([base_id, table_id, view_name])
AllConfigured(config) ==
    Truthy(config.base_id) /\ Truthy(config.table_id) /\ Truthy(config.view)

\* __init__(table_key) in environment e: the exception raised, or the object.
InitClient(e, table_key) ==
    LET api_key == e["AIRTABLE_API_KEY"] IN
    IF ~Truthy(api_key) THEN Raise("Missing AIRTABLE_API_KEY")
    ELSE IF ~Truthy(table_key) THEN Return(NewClient(api_key, None, None, None))
    ELSE IF ~(\E k \in TableKeys : table_key = Text(k))
        THEN Raise("Unsupported table key")
    ELSE LET config == table_map(e)[table_key.s[1]] IN
        IF ~AllConfigured(config)
            THEN Raise("Missing required environment variables")
        ELSE Return(NewClient(api_key, config.base_id, config.table_id, config.view))

Construct ==
    /\ pc = "idle"
    /\ ~client.constructed
    /\ \E table_key \in TableKeyInputs :
        LET r == InitClient(env, table_key) IN
        /\ call' = [op |-> "__init__", table_key |-> table_key]
        /\ client' = IF r.kind = "return" THEN r.value ELSE NoClient
        /\ outcome' = IF r.kind = "return" THEN Return(None) ELSE r
    /\ pc' = "returned"
    /\ UNCHANGED <<env, view, flagged>>

\* The caller takes the result and goes on.
CallerContinue ==
    /\ pc = "returned"
    /\ pc' = "idle"
    /\ call' = [op |-> "none"]
    /\ outcome' = [kind |-> "none"]
    /\ UNCHANGED <<env, client, view, flagged>>

(***************************************************************************)
(* Dates.  An instant is a number of hours since 2025-04-01T00:00:00Z.      *)
(***************************************************************************)
Digits == <<"0", "1", "2", "3", "4", "5", "6", "7", "8", "9">>

TwoDigits(n) == <<Digits[(n \div 10) + 1], Digits[(n % 10) + 1]>>

\* strftime("%Y-%m-%d") of the day-th day after 2025-04-01.
DateStr(day) == <<"2", "0", "2", "5", "-", "0", "4", "-">> \o TwoDigits(day + 1)

\* The store's rendering of an instant: '2025-04-06T00:00:00.000Z' (UTC).
IsoUtc(i) ==
    DateStr(i \div 24) \o <<"T">> \o TwoDigits(i % 24)
        \o <<":", "0", "0", ":", "0", "0", ".", "0", "0", "0", "Z">>

\* America/Bogota is UTC-05:00 all year.
BogotaOffsetHours == 5

BogotaDay(i) == (i - BogotaOffsetHours) \div 24

\* datetime.now(bogota).strftime("%Y-%m-%d")
today_str(now) == DateStr(BogotaDay(now))

\* Hours of the day sampled: before and after 05:00 UTC, Bogota's midnight.
SampleHours == {2, 7}

Instants == {d * 24 + h : d \in 1..MaxDay, h \in SampleHours}

\* s.split(c)[0]: the text before the first c, all of s when it holds no c.
RECURSIVE SplitFirst(_, _)
SplitFirst(s, c) ==
    IF s = <<>> THEN <<>>
    ELSE IF Head(s) = c THEN <<>>
    ELSE <<Head(s)>> \o SplitFirst(Tail(s), c)

(***************************************************************************)
(* The external store.  view is the content, in view order, of the view the *)
(* client's calls address; flagged holds the ids of the records whose       *)
(* 'Something Went Wrong' checkbox is set.                                   *)
(***************************************************************************)
RecordId(n) == Str(<<"rec">> \o TwoDigits(n))

\* A field map from the fields that are present (None marks an absent one).
FieldMap(f) == [k \in {n \in DOMAIN f : f[n] # None} |-> f[k]]

\* Values of a linked-record field: absent, a scalar, and lists of 0, 1, 2.
LinkValues(a, b) ==
    <<None, Text(a), List(<<>>), List(<<Text(a)>>), List(<<Text(a), Text(b)>>)>>

LinkShapes == 1..5

Rot(k, by) == ((k + by - 1) % 5) + 1

\* Schedule Date: absent, empty, a date alone, or a date with time (UTC).
ScheduleDates ==
    {None, Str(<<>>), Str(DateStr(1))} \cup {Str(IsoUtc(i)) : i \in Instants}

\* Rows of a content table ('Unposted' view).
ContentFields ==
    {FieldMap([n \in {"Schedule Date", "Username", "Drive URL", "Package Name"} |->
        CASE n = "Schedule Date" -> d
          [] n = "Username" -> Text("user")
          [] n = "Drive URL" -> Text("https://drive/1")
          [] n = "Package Name" -> LinkValues("com.pkg.a", "com.pkg.b")[k]]) :
        d \in ScheduleDates, k \in LinkShapes}

\* Rows of the warm-up table ('Warmup' view).
WarmupFields ==
    {FieldMap([n \in {"Status", "Daily Warmup Complete", "Username", "Device ID",
                      "Package Name"} |->
        CASE n = "Status" -> st
          [] n = "Daily Warmup Complete" -> done
          [] n = "Username" -> LinkValues("user", "user2")[k]
          [] n = "Device ID" -> LinkValues("dev", "dev2")[Rot(k, 1)]
          [] n = "Package Name" -> LinkValues("com.pkg.a", "com.pkg.b")[Rot(k, 2)]]) :
        st \in {None, Text("Warmup"), Text("Active")},
        done \in {None, Bool(TRUE), Bool(FALSE)},
        k \in LinkShapes}

\* Rows of an account pool.
PoolFields ==
    {FieldMap([n \in {"Account", "Status", "Package Name", "Device ID"} |->
        CASE n = "Account" -> Text("acct")
          [] n = "Status" -> Text("Unused")
          [] n = "Package Name" -> LinkValues("com.pkg.a", "com.pkg.b")[k]
          [] n = "Device ID" -> LinkValues("dev", "dev2")[j]]) :
        k \in LinkShapes, j \in LinkShapes}

\* The rows the table addressed by client c can hold.
FieldsFor(c) ==
    IF c.view_name = Text("Unposted") THEN ContentFields
    ELSE IF c.view_name = Text("Warmup") THEN WarmupFields
    ELSE PoolFields

\* Somebody adds a row to the view; the store names it.
ServiceAddRecord ==
    /\ pc = "idle"
    /\ client.constructed
    /\ Len(view) < MaxRecords
    /\ \E f \in FieldsFor(client) :
        view' = Append(view, [id |-> RecordId(Len(view) + 1), fields |-> f])
    /\ UNCHANGED <<env, client, flagged, pc, call, outcome>>

\* A request fails when the service does (network, auth) or when the client
\* addresses no base or table.
RequestFails(base_id, table_id, down) ==
    down \/ ~Truthy(base_id) \/ ~Truthy(table_id)

\* table.all(view=...): every row of the view, in view order.
ListAll(records) == records

\* table.all(view=..., fields=names, max_records=n)
ListSome(records, names, n) ==
    [i \in 1..(IF Len(records) < n THEN Len(records) ELSE n) |->
        [id |-> records[i].id,
         fields |-> [k \in DOMAIN records[i].fields \cap names |->
                        records[i].fields[k]]]]

(***************************************************************************)
(* get_unposted_records_for_today                                           *)
(***************************************************************************)
\* raw[0] if isinstance(raw, list) and raw else raw
FirstOrSelf(raw) == IF IsList(raw) /\ Truthy(raw) THEN raw.l[1] ELSE raw

UnpostedItem(record) ==
    [id |-> record.id,
     fields |-> [username |-> Get(record.fields, "Username"),
                 package_name |-> FirstOrSelf(Get(record.fields, "Package Name")),
                 media_url |-> Get(record.fields, "Drive URL")]]

UnpostedBreakLate(matching, max_count) == Len(matching) > max_count

\* if len(matching) >= max_count: break
UnpostedBreak(matching, max_count) == Len(matching) >= max_count

\* The loop over the listed records, with its continue and break.
RECURSIVE UnpostedLoop(_, _, _, _)
UnpostedLoop(records, today, max_count, matching) ==
    IF records = <<>> THEN matching
    ELSE LET record == Head(records)
             schedule_raw == Get(record.fields, "Schedule Date")
         IN  IF ~Truthy(schedule_raw)
                 THEN UnpostedLoop(Tail(records), today, max_count, matching)
             ELSE IF SplitFirst(schedule_raw.s, "T") # today
                 THEN UnpostedLoop(Tail(records), today, max_count, matching)
             ELSE LET appended == Append(matching, UnpostedItem(record)) IN
                 IF UnpostedBreak(appended, max_count) THEN appended
                 ELSE UnpostedLoop(Tail(records), today, max_count, appended)

\* The body of the method; down says whether the service fails the request.
get_unposted_records_for_today(c, records, now, max_count, down) ==
    IF RequestFails(c.base_id, c.table_id, down) THEN Return(List(<<>>))
    ELSE Return(List(UnpostedLoop(ListAll(records), today_str(now), max_count, <<>>)))

GetUnposted ==
    /\ pc = "idle"
    /\ client.constructed
    /\ \E max_count \in 0..MaxCount, now \in Instants, down \in BOOLEAN :
        /\ call' = IF RequestFails(client.base_id, client.table_id, down)
                    THEN [op |-> "get_unposted_records_for_today",
                          max_count |-> max_count, failed |-> TRUE]
                    ELSE [op |-> "get_unposted_records_for_today",
                          max_count |-> max_count, failed |-> FALSE, now |-> now]
        /\ outcome' = get_unposted_records_for_today(client, view, now, max_count, down)
    /\ pc' = "returned"
    /\ UNCHANGED <<env, client, view, flagged>>

(***************************************************************************)
(* update_record_fields and mark_something_went_wrong_and_rotate            *)
(***************************************************************************)
Ids(records) == {records[i].id : i \in 1..Len(records)}

\* table.update(record_id, fields, typecast=True): raises on a failed request
\* or an id the table does not hold, else writes the fields.
TableUpdate(c, records, store, record_id, fields, down) ==
    IF RequestFails(c.base_id, c.table_id, down) \/ record_id \notin Ids(records)
        THEN [result |-> Raise("HTTPError"), store |-> store]
    ELSE [result |-> Return(Dict([id |-> record_id, fields |-> fields])),
          store |-> IF "Something Went Wrong" \notin DOMAIN fields THEN store
                    ELSE IF fields["Something Went Wrong"] = Bool(TRUE)
                        THEN store \cup {record_id}
                    ELSE store \ {record_id}]

update_record_fields(c, records, store, record_id, fields, down) ==
    LET u == TableUpdate(c, records, store, record_id, fields, down) IN
    IF u.result.kind = "raise" THEN [result |-> Return(None), store |-> u.store]
    ELSE u

mark_something_went_wrong_and_rotate(c, records, store, record_id, down) ==
    LET u == update_record_fields(c, records, store, record_id,
                 [n \in {"Something Went Wrong"} |-> Bool(TRUE)], down)
    IN  IF u.result.kind = "raise" THEN [result |-> Return(Bool(FALSE)), store |-> u.store]
        ELSE [result |-> Return(Bool(TRUE)), store |-> u.store]

\* The field maps written through update_record_fields.
UpdateInputs ==
    {[n \in {"Something Went Wrong"} |-> Bool(FALSE)],
     [n \in {"Posted?"} |-> Bool(TRUE)]}

\* The ids tried: those of the view and one the table does not hold.
IdInputs == {RecordId(n) : n \in 1..(Len(view) + 1)}

\* Whether the write reached the table.
Wrote(c, records, store, record_id, fields, down) ==
    TableUpdate(c, records, store, record_id, fields, down).result.kind = "return"

UpdateRecordFields ==
    /\ pc = "idle"
    /\ client.constructed
    /\ \E record_id \in IdInputs, fields \in UpdateInputs, down \in BOOLEAN :
        LET u == update_record_fields(client, view, flagged, record_id, fields, down) IN
        /\ call' = [op |-> "update_record_fields", record_id |-> record_id,
                    fields |-> fields,
                    failed |-> ~Wrote(client, view, flagged, record_id, fields, down)]
        /\ outcome' = u.result
        /\ flagged' = u.store
    /\ pc' = "returned"
    /\ UNCHANGED <<env, client, view>>

MarkSomethingWentWrong ==
    /\ pc = "idle"
    /\ client.constructed
    /\ \E record_id \in IdInputs, down \in BOOLEAN :
        LET u == mark_something_went_wrong_and_rotate(client, view, flagged,
                     record_id, down) IN
        /\ call' = [op |-> "mark_something_went_wrong_and_rotate",
                    record_id |-> record_id,
                    failed |-> ~Wrote(client, view, flagged, record_id,
                                  [n \in {"Something Went Wrong"} |-> Bool(TRUE)], down)]
        /\ outcome' = u.result
        /\ flagged' = u.store
    /\ pc' = "returned"
    /\ UNCHANGED <<env, client, view>>

(***************************************************************************)
(* get_single_active_account                                                *)
(***************************************************************************)
AccountFieldNames ==
    {"Account", "Password", "Email", "Email Password", "Package Name", "Device ID"}

\* fields.get(name, [None])[0] if isinstance(fields.get(name), list)
\* else fields.get(name); indexing an empty list raises IndexError.
FirstOfList(record_fields, name) ==
    LET v == Get(record_fields, name) IN
    IF IsList(v)
        THEN IF Len(v.l) = 0 THEN Raise("IndexError") ELSE Return(v.l[1])
    ELSE Return(v)

\* record_fields[name] = value
SetField(record_fields, name, value) ==
    [k \in DOMAIN record_fields \cup {name} |->
        IF k = name THEN value ELSE record_fields[k]]

\* The try block: an exception it raises, or the value it returns.
SingleActiveAccountBody(records, base_id, table_id, down) ==
    IF RequestFails(base_id, table_id, down) THEN Raise("RequestException")
    ELSE LET listed == ListSome(records, AccountFieldNames, 1) IN
        IF listed = <<>> THEN Return(None)
        ELSE LET record == listed[1]
                 package == FirstOfList(record.fields, "Package Name")
             IN  IF package.kind = "raise" THEN package
                 ELSE LET f1 == SetField(record.fields, "Package Name", package.value)
                          device == FirstOfList(f1, "Device ID")
                      IN  IF device.kind = "raise" THEN device
                          ELSE Return(Dict([id |-> record.id,
                                   fields |-> SetField(f1, "Device ID", device.value),
                                   base_id |-> base_id,
                                   table_id |-> table_id]))

get_single_active_account(records, base_id, table_id, view_id, down) ==
    LET r == SingleActiveAccountBody(records, base_id, table_id, down) IN
    IF r.kind = "raise" THEN Return(None) ELSE r

BaseInputs == {None, Text("appPool"), Text("appSpare")}
TableInputs == {Text("tblAccounts")}
ViewInputs == {Text("viwUnused")}

GetSingleActiveAccount ==
    /\ pc = "idle"
    /\ client.constructed
    /\ \E base_id \in BaseInputs, table_id \in TableInputs, view_id \in ViewInputs,
          down \in BOOLEAN :
        /\ call' = [op |-> "get_single_active_account", base_id |-> base_id,
                    table_id |-> table_id, view_id |-> view_id,
                    failed |-> RequestFails(base_id, table_id, down)]
        /\ outcome' = get_single_active_account(view, base_id, table_id, view_id, down)
    /\ pc' = "returned"
    /\ UNCHANGED <<env, client, view, flagged>>

(***************************************************************************)
(* get_pending_warmup_records                                               *)
(***************************************************************************)
flatten(value) == IF IsList(value) /\ Truthy(value) THEN value.l[1] ELSE value

WarmupItem(record) ==
    [record_id |-> record.id,
     username |-> flatten(Get(record.fields, "Username")),
     device_id |-> flatten(Get(record.fields, "Device ID")),
     package_name |-> flatten(Get(record.fields, "Package Name"))]

\* if max_count and len(result) >= max_count
WarmupBreak(max_count, result) == Truthy(max_count) /\ Len(result) >= max_count.n

WarmupSkipStatusOnly(fields) == Get(fields, "Status") # Text("Warmup")

\* The two `continue` tests: status is not 'Warmup', or the flag `is True`.
WarmupSkip(fields) ==
    \/ Get(fields, "Status") # Text("Warmup")
    \/ Get(fields, "Daily Warmup Complete") = Bool(TRUE)

RECURSIVE WarmupLoop(_, _, _)
WarmupLoop(records, max_count, result) ==
    IF records = <<>> THEN result
    ELSE LET record == Head(records) IN
        IF WarmupSkip(record.fields)
            THEN WarmupLoop(Tail(records), max_count, result)
        ELSE LET appended == Append(result, WarmupItem(record)) IN
            IF WarmupBreak(max_count, appended) THEN appended
            ELSE WarmupLoop(Tail(records), max_count, appended)

\* No try block: an exception of the list call leaves the method.
get_pending_warmup_records(c, records, max_count, down) ==
    IF RequestFails(c.base_id, c.table_id, down) THEN Raise("RequestException")
    ELSE Return(List(WarmupLoop(ListAll(records), max_count, <<>>)))

MaxCountInputs == {None} \cup {Num(n) : n \in 0..MaxCount}

GetPendingWarmup ==
    /\ pc = "idle"
    /\ client.constructed
    /\ \E max_count \in MaxCountInputs, down \in BOOLEAN :
        /\ call' = [op |-> "get_pending_warmup_records", max_count |-> max_count,
                    failed |-> RequestFails(client.base_id, client.table_id, down)]
        /\ outcome' = get_pending_warmup_records(client, view, max_count, down)
    /\ pc' = "returned"
    /\ UNCHANGED <<env, client, view, flagged>>

(***************************************************************************)
(* Specifications.                                                          *)
(***************************************************************************)
Start(e) ==
    /\ env = e
    /\ client = NoClient
    /\ view = <<>>
    /\ flagged = {}
    /\ pc = "idle"
    /\ call = [op |-> "none"]
    /\ outcome = [kind |-> "none"]

InitConstruct == \E e \in Environments : Start(e)
NextConstruct == Construct \/ CallerContinue
SpecConstruct == InitConstruct /\ [][NextConstruct]_vars

InitContent == Start(ContentEnv)
NextContent == Construct \/ ServiceAddRecord \/ GetUnposted \/ CallerContinue
SpecContent == InitContent /\ [][NextContent]_vars

InitWarmup == Start(WarmupEnv)
NextWarmup == Construct \/ ServiceAddRecord \/ GetPendingWarmup \/ CallerContinue
SpecWarmup == InitWarmup /\ [][NextWarmup]_vars

InitPool == Start(PoolEnv)
NextPool == Construct \/ ServiceAddRecord \/ GetSingleActiveAccount \/ CallerContinue
SpecPool == InitPool /\ [][NextPool]_vars

Init == \E e \in {ContentEnv, WarmupEnv, PoolEnv} : Start(e)

Next ==
    \/ Construct
    \/ ServiceAddRecord
    \/ GetUnposted
    \/ MarkSomethingWentWrong
    \/ UpdateRecordFields
    \/ GetSingleActiveAccount
    \/ GetPendingWarmup
    \/ CallerContinue

Spec == Init /\ [][Next]_vars

(***************************************************************************)
(* Properties.                                                              *)
(***************************************************************************)
Returned(op) == pc = "returned" /\ call.op = op

\* The row of the view that the store named id.
RecordById(id) == CHOOSE r \in {view[i] : i \in 1..Len(view)} : r.id = id

Items == outcome.value.l

Min(a, b) == IF a < b THEN a ELSE b

\* A client constructed with a table key: it addresses a base and a table.
Configured == client.constructed /\ Truthy(client.base_id) /\ Truthy(client.table_id)

\* C1: mark_something_went_wrong_and_rotate returns True only when the write
\* of 'Something Went Wrong' reached the table, and False whenever it failed
\* (stated for a client that addresses a table).
C1_ReturnsWhetherUpdated ==
    (Returned("mark_something_went_wrong_and_rotate") /\ Configured) =>
        /\ outcome.kind = "return"
        /\ (outcome.value = Bool(TRUE)) <=> (~call.failed /\ call.record_id \in flagged)
        /\ (outcome.value = Bool(FALSE)) <=> call.failed

PublicOperations ==
    {"get_unposted_records_for_today", "mark_something_went_wrong_and_rotate",
     "update_record_fields", "get_single_active_account",
     "get_pending_warmup_records"}

\* C2: when the list or update request of a public operation fails, the
\* operation still returns normally instead of raising (stated for a client
\* that addresses a table).
C2_NoFailurePropagates ==
    (pc = "returned" /\ call.op \in PublicOperations /\ call.failed /\ Configured) =>
        outcome.kind = "return"

\* The normalisation of a linked-record field as specified: the element of a
\* one-element list, a non-list unchanged, None for an empty list.
NormalizedAsSpecified(raw, out) ==
    /\ (IsList(raw) /\ Len(raw.l) = 1) => out = raw.l[1]
    /\ ~IsList(raw) => out = raw
    /\ (IsList(raw) /\ Len(raw.l) = 0) => out = None

\* C3: in every record the three fetch operations return, each linked-record
\* field is normalised as specified.
C3_LinkedFieldsNormalized ==
    /\ (Returned("get_unposted_records_for_today") /\ outcome.kind = "return") =>
        \A i \in 1..Len(Items) :
            NormalizedAsSpecified(Get(RecordById(Items[i].id).fields, "Package Name"),
                                  Items[i].fields.package_name)
    /\ (Returned("get_single_active_account") /\ outcome.kind = "return"
            /\ outcome.value # None) =>
        \A n \in {"Package Name", "Device ID"} :
            NormalizedAsSpecified(Get(view[1].fields, n),
                                  Get(outcome.value.d.fields, n))
    /\ (Returned("get_pending_warmup_records") /\ outcome.kind = "return") =>
        \A i \in 1..Len(Items) :
            LET raw == RecordById(Items[i].record_id).fields IN
            /\ NormalizedAsSpecified(Get(raw, "Username"), Items[i].username)
            /\ NormalizedAsSpecified(Get(raw, "Device ID"), Items[i].device_id)
            /\ NormalizedAsSpecified(Get(raw, "Package Name"), Items[i].package_name)

\* C4: get_unposted_records_for_today(max_count) returns at most max_count
\* records, for every max_count >= 0.
C4_UnpostedCapped ==
    Returned("get_unposted_records_for_today") =>
        /\ outcome.kind = "return"
        /\ Len(Items) <= call.max_count

\* C5: get_pending_warmup_records(max_count) returns at most max_count records
\* whenever max_count is passed, 0 included.
C5_WarmupCapped ==
    (Returned("get_pending_warmup_records") /\ outcome.kind = "return"
        /\ call.max_count # None) =>
        Len(Items) <= call.max_count.n

\* C6: a record whose Schedule Date is a date-plus-time instant is returned
\* only if that instant's calendar day in America/Bogota is today's there
\* (stated for max_count >= 1).
C6_SameDayInBogota ==
    (Returned("get_unposted_records_for_today") /\ ~call.failed
        /\ call.max_count >= 1) =>
        \A k \in 1..Len(Items) : \A i \in Instants :
            Get(RecordById(Items[k].id).fields, "Schedule Date") = Str(IsoUtc(i))
                => BogotaDay(i) = BogotaDay(call.now)

\* C7: get_single_active_account never raises, returns None exactly when the
\* view is empty or the list request fails, and otherwise returns the first
\* record's id with the base_id and table_id passed in.
C7_SingleAccountOrNothing ==
    Returned("get_single_active_account") =>
        /\ outcome.kind = "return"
        /\ (outcome.value = None) <=> (call.failed \/ view = <<>>)
        /\ (~call.failed /\ view # <<>>) =>
            /\ outcome.value.t = "dict"
            /\ outcome.value.d.id = view[1].id
            /\ outcome.value.d.base_id = call.base_id
            /\ outcome.value.d.table_id = call.table_id

\* A row that is pending: Status is 'Warmup' and the flag is not true.
Pending(r) ==
    /\ Get(r.fields, "Status") = Text("Warmup")
    /\ Get(r.fields, "Daily Warmup Complete") # Bool(TRUE)

IdsOf(rows) == [i \in 1..Len(rows) |-> rows[i].id]

\* C8: every record get_pending_warmup_records returns is pending, and with
\* max_count omitted it returns every pending record of the view, in order.
C8_OnlyPendingReturned ==
    (Returned("get_pending_warmup_records") /\ outcome.kind = "return") =>
        /\ \A i \in 1..Len(Items) : Pending(RecordById(Items[i].record_id))
        /\ call.max_count = None =>
            [i \in 1..Len(Items) |-> Items[i].record_id]
                = IdsOf(SelectSeq(view, Pending))

C8_Witness ==
    /\ Returned("get_pending_warmup_records")
    /\ outcome.kind = "return"
    /\ call.max_count = None
    /\ Len(view) = 2
    /\ Get(view[1].fields, "Status") = Text("Warmup")
    /\ Get(view[1].fields, "Daily Warmup Complete") = Bool(TRUE)
    /\ Pending(view[2])
    /\ Len(Items) = 1

Named(table_key) == \E k \in TableKeys : table_key = Text(k)

\* The environment variables a named configuration reads.
BaseVar(k) ==
    CASE k = "content_alexis" -> "ALEXIS_BASE_ID"
      [] k = "content_maddison" -> "MADDISON_BASE_ID"
      [] k = "warmup_accounts" -> "IG_ARMY_BASE_ID"

TableVar(k) ==
    CASE k = "content_alexis" -> "ALEXIS_CONTENT_TABLE_ID"
      [] k = "content_maddison" -> "MADDISON_CONTENT_TABLE_ID"
      [] k = "warmup_accounts" -> "IG_ARMY_WARMUP_ACCOUNTS_TABLE_ID"

Unset(name) == env[name] = None \/ env[name] = Str(<<>>)

\* What construction must have done with a table_key that counts as given
\* (given says whether it does): raised as claimed, or configured the client.
ConstructionRaises(given) ==
    /\ Unset("AIRTABLE_API_KEY") => outcome.kind = "raise"
    /\ (given /\ ~Named(call.table_key)) => outcome.kind = "raise"
    /\ (given /\ Named(call.table_key)
            /\ (Unset(BaseVar(call.table_key.s[1]))
                    \/ Unset(TableVar(call.table_key.s[1])))) =>
        outcome.kind = "raise"
    /\ (given /\ outcome.kind = "return") =>
        /\ client.constructed
        /\ client.base_id.t = "str" /\ client.base_id.s # <<>>
        /\ client.table_id.t = "str" /\ client.table_id.s # <<>>
        /\ client.view_name.t = "str" /\ client.view_name.s # <<>>

\* C9 as claimed: construction raises when AIRTABLE_API_KEY is unset or empty,
\* when a table_key is given that is no named configuration, or when a given
\* table_key's base or table variable is unset or empty; a client constructed
\* with a table_key has non-empty base_id, table_id and view_name.
C9_RaisesForAnyGivenKey ==
    Returned("__init__") => ConstructionRaises(call.table_key # None)

\* C9 amended: the same, for a table_key that is given and not empty.
C9_RaisesForNonEmptyKey ==
    Returned("__init__") =>
        ConstructionRaises(call.table_key # None /\ call.table_key # Str(<<>>))

C9_Witness ==
    /\ Returned("__init__")
    /\ Named(call.table_key)
    /\ outcome.kind = "return"
    /\ client.constructed
    /\ Truthy(client.base_id)
    /\ \E n \in EnvNames : Unset(n)

\* p is the text of s before its first 'T' (all of s when it holds none).
BeforeFirstT(p, s) ==
    /\ Len(p) <= Len(s)
    /\ \A i \in 1..Len(p) : p[i] = s[i] /\ p[i] # "T"
    /\ Len(p) < Len(s) => s[Len(p) + 1] = "T"

\* A row due today: Schedule Date present, not empty, and dated today.
DueToday(r) ==
    LET d == Get(r.fields, "Schedule Date") IN
    /\ d # None
    /\ d # Str(<<>>)
    /\ BeforeFirstT(DateStr(BogotaDay(call.now)), d.s)

\* C10: for max_count >= 1 and a successful list request, the result is the
\* first min(max_count, m) of the m rows due today, in view order, each with
\* its id and the projection {username, package_name, media_url}.
C10_FirstDueRecords ==
    (Returned("get_unposted_records_for_today") /\ ~call.failed
        /\ call.max_count >= 1) =>
        LET due == SelectSeq(view, DueToday) IN
        /\ outcome.kind = "return"
        /\ Len(Items) = Min(call.max_count, Len(due))
        /\ \A i \in 1..Len(Items) :
            /\ Items[i].id = due[i].id
            /\ DOMAIN Items[i].fields = {"username", "package_name", "media_url"}
            /\ Items[i].fields.username = Get(due[i].fields, "Username")
            /\ Items[i].fields.media_url = Get(due[i].fields, "Drive URL")

C10_Witness ==
    /\ Returned("get_unposted_records_for_today")
    /\ ~call.failed
    /\ call.max_count = 1
    /\ Len(view) = 2
    /\ DueToday(view[1]) /\ DueToday(view[2])
    /\ Len(Items) = 1
====
